---- MODULE Spec2Model ----
(***************************************************************************)
(* Storage pond model (pond_model_eqns.py): the dynamics function f, the   *)
(* measurement function g, the module-level default parameters and         *)
(* operating point, and the self test run_tests that runs when the module  *)
(* is loaded.                                                              *)
(*                                                                         *)
(* Numbers.  The program computes with Python numbers.  The model computes *)
(* with exact arithmetic: a number is a decimal n * 10^-e whose mantissa n *)
(* is an integer of unbounded size (a sequence of limbs), h ** 1.5 is kept *)
(* as the exact quantity h * sqrt(h), and a quotient is kept as numerator  *)
(* and denominator.  A value of f is therefore (p + r * sqrt(h)) / den     *)
(* with p, r, h, den decimals.  For h < 0 this is the complex number       *)
(* Python returns for a negative float raised to 1.5.  Floating point      *)
(* rounding is not modelled.                                               *)
(***************************************************************************)
EXTENDS Integers, Sequences, FiniteSets, TLC

----------------------------------------------------------------------------
(* Natural numbers of unbounded size: little-endian sequences of limbs in  *)
(* 0 .. Base-1, without leading zero limbs; zero is the empty sequence.    *)

Base == 1000

RECURSIVE NatNorm(_)
NatNorm(a) ==
  IF a = <<>> THEN <<>>
  ELSE IF a[Len(a)] = 0 THEN NatNorm(SubSeq(a, 1, Len(a) - 1))
  ELSE a

Limb(a, i) == IF 1 <= i /\ i <= Len(a) THEN a[i] ELSE 0

MaxOf(m, n) == IF m >= n THEN m ELSE n

\* limbs of any size (negative too) brought into 0 .. Base-1, from limb i on
RECURSIVE Carry(_, _, _)
Carry(a, i, carry) ==
  IF i > Len(a)
  THEN (IF carry = 0 THEN <<>> ELSE <<carry % Base>> \o Carry(a, i, carry \div Base))
  ELSE LET s == a[i] + carry
       IN  <<s % Base>> \o Carry(a, i + 1, s \div Base)

NatOfInt(n) == NatNorm(Carry(<<n>>, 1, 0))

NatAdd(a, b) ==
  Carry([i \in 1..MaxOf(Len(a), Len(b)) |-> Limb(a, i) + Limb(b, i)], 1, 0)

\* a - b for a >= b
NatSub(a, b) ==
  NatNorm(Carry([i \in 1..Len(a) |-> a[i] - Limb(b, i)], 1, 0))

\* sum of a[i] * b[k + 1 - i] for i in 1 .. n
RECURSIVE Convolve(_, _, _, _)
Convolve(a, b, k, n) ==
  IF n = 0 THEN 0 ELSE a[n] * Limb(b, k + 1 - n) + Convolve(a, b, k, n - 1)

NatMul(a, b) ==
  IF a = <<>> \/ b = <<>> THEN <<>>
  ELSE Carry([k \in 1..(Len(a) + Len(b) - 1) |-> Convolve(a, b, k, Len(a))], 1, 0)

\* -1, 0, 1 as a < b, a = b, a > b
RECURSIVE NatCmpFrom(_, _, _)
NatCmpFrom(a, b, i) ==
  IF i = 0 THEN 0
  ELSE IF a[i] < b[i] THEN -1
  ELSE IF a[i] > b[i] THEN 1
  ELSE NatCmpFrom(a, b, i - 1)

NatCmp(a, b) ==
  IF Len(a) < Len(b) THEN -1
  ELSE IF Len(a) > Len(b) THEN 1
  ELSE NatCmpFrom(a, b, Len(a))

RECURSIVE Pow10(_)
Pow10(k) ==
  IF k = 0 THEN <<1>>
  ELSE LET a == Pow10(k - 1)
       IN  Carry([i \in 1..Len(a) |-> 10 * a[i]], 1, 0)

----------------------------------------------------------------------------
(* Integers: sign s in {-1, 0, 1} and magnitude m.                         *)

ZOf(s, m) == IF m = <<>> THEN [s |-> 0, m |-> <<>>] ELSE [s |-> s, m |-> m]

ZOfInt(n) == IF n < 0 THEN ZOf(-1, NatOfInt(-n)) ELSE ZOf(1, NatOfInt(n))

ZNeg(a) == ZOf(-a.s, a.m)

ZAdd(a, b) ==
  IF a.s = 0 THEN b
  ELSE IF b.s = 0 THEN a
  ELSE IF a.s = b.s THEN ZOf(a.s, NatAdd(a.m, b.m))
  ELSE LET k == NatCmp(a.m, b.m)
       IN  IF k = 0 THEN ZOf(0, <<>>)
           ELSE IF k > 0 THEN ZOf(a.s, NatSub(a.m, b.m))
           ELSE ZOf(b.s, NatSub(b.m, a.m))

ZMul(a, b) == ZOf(a.s * b.s, NatMul(a.m, b.m))

----------------------------------------------------------------------------
(* Decimals: the number n * 10^-e, n an integer, e a natural number.  The  *)
(* same number has several representations (1 and 1.0); numbers are        *)
(* compared with DCmp, never with =.                                       *)

Dec(n, e) == [n |-> ZOfInt(n), e |-> e]

DInt(n) == Dec(n, 0)

DSign(a) == a.n.s

DNeg(a) == [n |-> ZNeg(a.n), e |-> a.e]

\* the mantissa of a at exponent e >= a.e
Mantissa(a, e) == IF e = a.e THEN a.n ELSE ZMul(a.n, ZOf(1, Pow10(e - a.e)))

DAdd(a, b) ==
  LET e == MaxOf(a.e, b.e)
  IN  [n |-> ZAdd(Mantissa(a, e), Mantissa(b, e)), e |-> e]

DSub(a, b) == DAdd(a, DNeg(b))

DMul(a, b) == [n |-> ZMul(a.n, b.n), e |-> a.e + b.e]

DCmp(a, b) == DSign(DSub(a, b))

DLt(a, b) == DCmp(a, b) < 0

DEq(a, b) == DCmp(a, b) = 0

----------------------------------------------------------------------------
(* Values: the number (p + r * sqrt(h)) / den with p, r, h, den decimals   *)
(* and den > 0.  With h < 0 and r # 0 the value is complex (sqrt(h) is the *)
(* principal root).                                                        *)

VOf(p, r, h, den) ==
  IF DSign(h) = 0 \/ DSign(r) = 0
  THEN [p |-> p, r |-> DInt(0), h |-> DInt(0), den |-> den]
  ELSE [p |-> p, r |-> r, h |-> h, den |-> den]

VOfD(a) == VOf(a, DInt(0), DInt(0), DInt(1))

IsComplex(v) == DSign(v.h) < 0

\* h ** 1.5 = h * sqrt(h)
Pow15(h) == VOf(DInt(0), h, h, DInt(1))

\* k * v, k - v and v / k for a decimal k (k > 0 in v / k)
DMulV(k, v) == VOf(DMul(k, v.p), DMul(k, v.r), v.h, v.den)

DSubV(k, v) == VOf(DSub(DMul(k, v.den), v.p), DNeg(v.r), v.h, v.den)

VDivD(v, k) == VOf(v.p, v.r, v.h, DMul(v.den, k))

\* v1 - v2 for two values over the same h (or one of them without a root)
VSub(v1, v2) ==
  VOf(DSub(DMul(v1.p, v2.den), DMul(v2.p, v1.den)),
      DSub(DMul(v1.r, v2.den), DMul(v2.r, v1.den)),
      IF DSign(v1.h) = 0 THEN v2.h ELSE v1.h,
      DMul(v1.den, v2.den))

\* the sign of a real value
VSign(v) ==
  LET sp == DSign(v.p)
      sr == DSign(v.r)
  IN  IF sr = 0 THEN sp
      ELSE IF sp = 0 THEN sr
      ELSE IF sp = sr THEN sp
      ELSE sp * DCmp(DMul(v.p, v.p), DMul(DMul(v.r, v.r), v.h))

\* v == 0, v1 == v2 (False for a complex number that is not real)
VIsZero(v) == IF IsComplex(v) THEN FALSE ELSE VSign(v) = 0

VEq(v1, v2) == VIsZero(VSub(v1, v2))

\* v < k for a real v and a decimal k
VLtD(v, k) == VSign(VSub(v, VOfD(k))) < 0

----------------------------------------------------------------------------
(* What a call does: it returns a value or raises an exception.            *)

Return(shape, val) == [kind |-> "return", shape |-> shape, val |-> val]

Raise(err) == [kind |-> "raise", err |-> err]

Returned(out) == out.kind = "return"

Raised(out, err) == out.kind = "raise" /\ out.err = err

----------------------------------------------------------------------------
(* The dynamics function f and the measurement function g.                 *)

\* the literals 0.33, 3.33 and 0.2 of f
Dec033 == Dec(33, 2)

Dec333 == Dec(333, 2)

Dec02 == Dec(2, 1)

\* the guard with <= for <: the boundary value passes
InBoundsInclusive(h, b) == ~DLt(DMul(Dec033, b), h)

\* assert np.all(h < 0.33 * b), "Out of bounds"
InBounds(h, b) == DLt(h, DMul(Dec033, b))

\* the rate without the factor h ** 1.5 of the outflow
RateWithoutHeadPower(d, c, b, h, q) ==
  LET num == DMul(c, DSub(q, DMul(Dec333, DSub(b, DMul(Dec02, h)))))
      den == DMul(DAdd(h, d), DAdd(h, d))
  IN  IF DSign(den) = 0
      THEN Raise("ZeroDivisionError")
      ELSE Return("scalar", VDivD(VOfD(num), den))

\* the rate with the default width 2 for b
RateFixedWidth(d, c, b, h, q) ==
  LET num == DMulV(c, DSubV(q, DMulV(DMul(Dec333, DSub(DInt(2), DMul(Dec02, h))), Pow15(h))))
      den == DMul(DAdd(h, d), DAdd(h, d))
  IN  IF DSign(den) = 0
      THEN Raise("ZeroDivisionError")
      ELSE Return("scalar", VDivD(num, den))

\* c * (q - 3.33 * (b - 0.2 * h) * h ** 1.5 ) / (h + d) ** 2
Rate(d, c, b, h, q) ==
  LET num == DMulV(c, DSubV(q, DMulV(DMul(Dec333, DSub(b, DMul(Dec02, h))), Pow15(h))))
      den == DMul(DAdd(h, d), DAdd(h, d))
  IN  IF DSign(den) = 0
      THEN Raise("ZeroDivisionError")
      ELSE Return("scalar", VDivD(num, den))

\* f returning its result as a list of one element
f_list(t, x, u, params) ==
  IF Len(x) = 0 \/ Len(u) = 0 THEN Raise("IndexError")
  ELSE IF ~InBounds(x[1], params.weir_width) THEN Raise("AssertionError")
  ELSE LET out == Rate(params.weir_height, params.c, params.weir_width, x[1], u[1])
       IN  IF Returned(out) THEN Return("list", <<out.val>>) ELSE out

\* f with the guard on every component of x
f_all(t, x, u, params) ==
  IF Len(x) = 0 \/ Len(u) = 0 THEN Raise("IndexError")
  ELSE IF \E i \in 1..Len(x) : ~InBounds(x[i], params.weir_width)
       THEN Raise("AssertionError")
  ELSE Rate(params.weir_height, params.c, params.weir_width, x[1], u[1])

\* f with an inflow that grows with t
f_timed(t, x, u, params) ==
  IF Len(x) = 0 \/ Len(u) = 0 THEN Raise("IndexError")
  ELSE IF ~InBounds(x[1], params.weir_width) THEN Raise("AssertionError")
  ELSE Rate(params.weir_height, params.c, params.weir_width, x[1],
            DAdd(u[1], DInt(t)))

f(t, x, u, params) ==
  LET d == params.weir_height
      c == params.c
      b == params.weir_width
  IN  IF Len(x) = 0 \/ Len(u) = 0 THEN Raise("IndexError")
      ELSE LET h == x[1]
               q == u[1]
           IN  IF ~InBounds(h, b) THEN Raise("AssertionError")
               ELSE Rate(d, c, b, h, q)

\* g with the slice x[1:2]
g_shifted(t, x, u, params) ==
  Return("list", SubSeq(x, 2, IF Len(x) < 2 THEN Len(x) ELSE 2))

\* return x[0:1]
g(t, x, u, params) ==
  Return("list", SubSeq(x, 1, IF Len(x) < 1 THEN Len(x) ELSE 1))

----------------------------------------------------------------------------
(* Module-level data: the default parameters and the operating point.      *)

\* tan(deg2rad(10)) ** 2 / pi = 0.00989663764..., cut to eight digits
DefaultC == Dec(98966376, 10)

DefaultParams ==
  [weir_height |-> DInt(5), c |-> DefaultC, weir_width |-> DInt(2)]

\* u_nop, x_nop = [1], [0.28805]
InitUNop == <<DInt(1)>>

InitXNop == <<Dec(28805, 5)>>

----------------------------------------------------------------------------
(* Python objects.  A name holds a reference to a dict; heap maps the      *)
(* references to the dicts.  An object no name refers to is freed.         *)

Refs == 1..3

NoRef == 0

Free == [freed |-> TRUE]

\* params2 = params: the same dict under a second name
dict_alias(h, r) == [ref |-> r, heap |-> h]

\* params.copy(): a new dict with the same items
dict_copy(h, r) ==
  LET new == CHOOSE n \in Refs :
               h[n] = Free /\ \A m \in Refs : h[m] = Free => n <= m
  IN  [ref |-> new, heap |-> [h EXCEPT ![new] = h[r]]]

\* the heap after the name that held r is rebound or dropped; live: the
\* references other names still hold
Release(h, r, live) ==
  IF r = NoRef \/ r \in live THEN h ELSE [h EXCEPT ![r] = Free]

----------------------------------------------------------------------------
(* Inputs of the calls a client of the module makes once it is loaded.     *)

MaxLen == 2

\* head values: below zero (-weir_height among them), zero, the operating
\* point, and the values around 0.33 * weir_width for weir_width = 2
Heads ==
  {DInt(-5), Dec(-1, 1), DInt(0), Dec(28805, 5), Dec(64, 2), Dec(66, 2), Dec(68, 2)}

\* a further component of a state vector: above 0.33 * weir_width for every
\* weir_width in ParamSets
Extra == Dec(2, 0)

RECURSIVE Extras(_)
Extras(n) == IF n = 0 THEN <<>> ELSE <<Extra>> \o Extras(n - 1)

StateVectors ==
  {<<>>} \cup {<<h>> \o Extras(n) : h \in Heads, n \in 0..(MaxLen - 1)}

InputVectors == {<<DInt(0)>>, <<DInt(1)>>}

Times == {0, 110}

\* the default parameters, the default parameters with another width, and a
\* set that differs from them in every field
ParamSets ==
  { DefaultParams,
    [DefaultParams EXCEPT !.weir_width = Dec(5, 1)],
    [weir_height |-> DInt(1), c |-> Dec(5, 1), weir_width |-> DInt(1)] }

----------------------------------------------------------------------------
(* State.                                                                  *)

VARIABLES
  heap,      \* the dict each reference holds, or Free
  params,    \* module level: the reference to the default parameters
  x_nop,     \* module level: the operating point, state
  u_nop,     \* module level: the operating point, input
  pc,        \* the load of the module: the line of run_tests, loaded, failed
  error,     \* the exception that ended the load, or "none"
  params2,   \* run_tests: the reference its local name params2 holds
  last,      \* the most recent call of f or g: arguments and outcome
  echo       \* how the two most recent calls compare, when both are calls of f

vars == <<heap, params, x_nop, u_nop, pc, error, params2, last, echo>>

NoCall == [op |-> "none"]

Call(op, t, x, u, p, out) ==
  [op |-> op, t |-> t, x |-> x, u |-> u, p |-> p, out |-> out]

\* the outcome of f depends on these five values
SameKey(c1, c2) ==
  /\ Len(c1.x) >= 1 /\ Len(c2.x) >= 1 /\ Len(c1.u) >= 1 /\ Len(c2.u) >= 1
  /\ DEq(c1.x[1], c2.x[1])
  /\ DEq(c1.u[1], c2.u[1])
  /\ DEq(c1.p.weir_height, c2.p.weir_height)
  /\ DEq(c1.p.c, c2.p.c)
  /\ DEq(c1.p.weir_width, c2.p.weir_width)

\* a == b of two Python lists of numbers
ListEq(a, b) ==
  Len(a) = Len(b) /\ \A i \in 1..Len(a) : DEq(a[i], b[i])

\* the two outcomes are the same exception, or the same returned value
OutEq(o1, o2) ==
  /\ o1.kind = o2.kind
  /\ o1.kind = "raise" => o1.err = o2.err
  /\ o1.kind = "return" =>
       /\ o1.shape = o2.shape
       /\ o1.shape = "scalar" => VEq(o1.val, o2.val)
       /\ o1.shape = "list" => ListEq(o1.val, o2.val)

NoEcho == [agree |-> FALSE, tdiff |-> FALSE, same |-> FALSE]

Echo(c1, c2) ==
  IF c1.op = "f" /\ c2.op = "f" /\ SameKey(c1, c2)
  THEN [agree |-> TRUE, tdiff |-> c1.t # c2.t, same |-> OutEq(c1.out, c2.out)]
  ELSE NoEcho

InitWith(p) ==
  /\ heap = [r \in Refs |-> IF r = 1 THEN p ELSE Free]
  /\ params = 1
  /\ x_nop = InitXNop
  /\ u_nop = InitUNop
  /\ pc = "L60"
  /\ error = "none"
  /\ params2 = NoRef
  /\ last = NoCall
  /\ echo = NoEcho

Init == InitWith(DefaultParams)

----------------------------------------------------------------------------
(* run_tests, which runs when the module is loaded (the last line of the   *)
(* module).  One action per check; an exception ends the load.             *)

\* t = 10
TestTime == 10

\* the literals 0.34, 1e-6, 0.001, 0.01 and 0.1 of run_tests
Dec034 == Dec(34, 2)

Dec1em6 == Dec(1, 6)

Dec0001 == Dec(1, 3)

Dec001 == Dec(1, 2)

Dec01 == Dec(1, 1)

\* the exception leaves run_tests and the module; the local name params2,
\* which held p2, is dropped
Abort(err, h, p2) ==
  /\ pc' = "failed"
  /\ error' = err
  /\ params2' = NoRef
  /\ heap' = Release(h, p2, {params})
  /\ UNCHANGED <<params, x_nop, u_nop>>

Goto(line, h, p2) ==
  /\ pc' = line
  /\ error' = error
  /\ params2' = p2
  /\ heap' = h
  /\ UNCHANGED <<params, x_nop, u_nop>>

\* assert(f(t, [0], [0], params) == 0)
TestZero(line, t, next) ==
  /\ pc = line
  /\ LET c1 == Call("f", t, <<DInt(0)>>, <<DInt(0)>>, heap[params],
                    f(t, <<DInt(0)>>, <<DInt(0)>>, heap[params]))
     IN  /\ last' = c1
         /\ echo' = Echo(last, c1)
         /\ IF ~Returned(c1.out) THEN Abort(c1.out.err, heap, params2)
            ELSE IF ~(c1.out.shape = "scalar" /\ VIsZero(c1.out.val))
                 THEN Abort("AssertionError", heap, params2)
            ELSE Goto(next, heap, params2)

L60 == TestZero("L60", 0, "L61")

L61 == TestZero("L61", 110, "L62")

\* try: f(0, [0.34 * params['weir_width']], [0], params)
\* except AssertionError: pass
\* else: raise AssertionError("Bounds error was not raised")
L62 ==
  /\ pc = "L62"
  /\ LET x  == <<DMul(Dec034, heap[params].weir_width)>>
         c1 == Call("f", 0, x, <<DInt(0)>>, heap[params],
                    f(0, x, <<DInt(0)>>, heap[params]))
     IN  /\ last' = c1
         /\ echo' = Echo(last, c1)
         /\ IF Raised(c1.out, "AssertionError") THEN Goto("L70", heap, params2)
            ELSE IF Returned(c1.out) THEN Abort("AssertionError", heap, params2)
            ELSE Abort(c1.out.err, heap, params2)

\* assert(f(t, x_nop, u_nop, params) < 1e-6)
L70 ==
  /\ pc = "L70"
  /\ LET c1 == Call("f", TestTime, x_nop, u_nop, heap[params],
                    f(TestTime, x_nop, u_nop, heap[params]))
     IN  /\ last' = c1
         /\ echo' = Echo(last, c1)
         /\ IF ~Returned(c1.out) THEN Abort(c1.out.err, heap, params2)
            ELSE IF c1.out.shape # "scalar" \/ IsComplex(c1.out.val)
                 THEN Abort("TypeError", heap, params2)
            ELSE IF ~VLtD(c1.out.val, Dec1em6) THEN Abort("AssertionError", heap, params2)
            ELSE Goto("L71", heap, params2)

\* y_nop = g(t, x_nop, u_nop, params); assert(y_nop == x_nop)
L71 ==
  /\ pc = "L71"
  /\ LET c1 == Call("g", TestTime, x_nop, u_nop, heap[params],
                    g(TestTime, x_nop, u_nop, heap[params]))
     IN  /\ last' = c1
         /\ echo' = NoEcho
         /\ IF ~Returned(c1.out) THEN Abort(c1.out.err, heap, params2)
            ELSE IF ~(c1.out.shape = "list" /\ ListEq(c1.out.val, x_nop))
                 THEN Abort("AssertionError", heap, params2)
            ELSE Goto("L75", heap, params2)

\* params2 = params.copy(); params2[key] = val
\* assert(f(t, x_nop, u_nop, params) != f(t, x_nop, u_nop, params2))
TestParam(line, key, val, next) ==
  /\ pc = line
  /\ LET cp == dict_copy(heap, params)
         h1 == Release(cp.heap, params2, {params, cp.ref})
         h2 == [h1 EXCEPT ![cp.ref][key] = val]
         c1 == Call("f", TestTime, x_nop, u_nop, h2[params],
                    f(TestTime, x_nop, u_nop, h2[params]))
         c2 == Call("f", TestTime, x_nop, u_nop, h2[cp.ref],
                    f(TestTime, x_nop, u_nop, h2[cp.ref]))
     IN  IF ~Returned(c1.out)
         THEN last' = c1 /\ echo' = Echo(last, c1) /\ Abort(c1.out.err, h2, cp.ref)
         ELSE /\ last' = c2
              /\ echo' = Echo(c1, c2)
              /\ IF ~Returned(c2.out) THEN Abort(c2.out.err, h2, cp.ref)
                 ELSE IF OutEq(c1.out, c2.out) THEN Abort("AssertionError", h2, cp.ref)
                 ELSE IF next = "loaded"
                      THEN Goto(next, Release(h2, cp.ref, {params}), NoRef)
                      ELSE Goto(next, h2, cp.ref)

\* params2['c'] = params['c'] + 0.001
L75 == TestParam("L75", "c", DAdd(heap[params].c, Dec0001), "L78")

\* params2['weir_height'] = params['weir_height'] + 0.01
L78 == TestParam("L78", "weir_height", DAdd(heap[params].weir_height, Dec001), "L81")

\* params2['weir_width'] = params['weir_height'] + 0.1; run_tests returns
L81 == TestParam("L81", "weir_width", DAdd(heap[params].weir_height, Dec01), "loaded")

----------------------------------------------------------------------------
(* Calls by a client of the loaded module.                                 *)

CallF ==
  /\ pc = "loaded"
  /\ \E t \in Times, x \in StateVectors, u \in InputVectors,
        p \in ParamSets \cup {heap[params]} :
       LET c1 == Call("f", t, x, u, p, f(t, x, u, p))
       IN  last' = c1 /\ echo' = Echo(last, c1)
  /\ UNCHANGED <<heap, params, x_nop, u_nop, pc, error, params2>>

CallG ==
  /\ pc = "loaded"
  /\ \E t \in Times, x \in StateVectors, u \in InputVectors,
        p \in ParamSets \cup {heap[params]} :
       last' = Call("g", t, x, u, p, g(t, x, u, p))
  /\ echo' = NoEcho
  /\ UNCHANGED <<heap, params, x_nop, u_nop, pc, error, params2>>

Next ==
  \/ L60 \/ L61 \/ L62 \/ L70 \/ L71 \/ L75 \/ L78 \/ L81
  \/ CallF \/ CallG

Spec == Init /\ [][Next]_vars

\* the module as loaded with other default parameters than the source's
ModuleParamSets ==
  { DefaultParams,
    [DefaultParams EXCEPT !.weir_width = DInt(3)],
    [DefaultParams EXCEPT !.weir_width = Dec(15, 1)],
    [DefaultParams EXCEPT !.weir_width = Dec(51, 1)],
    [DefaultParams EXCEPT !.weir_width = DInt(-1)],
    [DefaultParams EXCEPT !.weir_height = DInt(0)] }

InitSelfTest == \E p \in ModuleParamSets : InitWith(p)

SpecSelfTest == InitSelfTest /\ [][Next]_vars

----------------------------------------------------------------------------
(* Properties.                                                             *)

ValidParams(p) ==
  DSign(p.weir_height) > 0 /\ DSign(p.c) > 0 /\ DSign(p.weir_width) > 0

\* the most recent call is f(t, x, u, p) with a head x[0] and an inflow u[0]
LastIsF == last.op = "f" /\ Len(last.x) >= 1 /\ Len(last.u) >= 1

OutOfBounds(out) == Raised(out, "AssertionError")

BelowBound(h, p) == DLt(h, DMul(Dec033, p.weir_width))

\* C1: with weir_width > 0, f fails with the out-of-bounds error exactly when
\* x[0] is not strictly less than 0.33 * weir_width (so also at x[0] =
\* 0.33 * weir_width), and then returns nothing; for 0 <= x[0] <
\* 0.33 * weir_width it does not raise the out-of-bounds error.
C1_GuardExact ==
  (LastIsF /\ DSign(last.p.weir_width) > 0) =>
    /\ OutOfBounds(last.out) <=> ~BelowBound(last.x[1], last.p)
    /\ ~BelowBound(last.x[1], last.p) => ~Returned(last.out)
    /\ (DSign(last.x[1]) >= 0 /\ BelowBound(last.x[1], last.p))
         => ~OutOfBounds(last.out)

C1_Witness ==
  /\ LastIsF
  /\ pc = "loaded"
  /\ DEq(last.x[1], DMul(Dec033, last.p.weir_width))
  /\ OutOfBounds(last.out)

\* C2: for every t and all valid parameters, f(t, [0], [0], params) returns
\* exactly 0.
C2_ZeroFixedPoint ==
  ( /\ last.op = "f"
    /\ Len(last.x) = 1 /\ Len(last.u) = 1
    /\ DSign(last.x[1]) = 0 /\ DSign(last.u[1]) = 0
    /\ ValidParams(last.p) ) =>
    /\ Returned(last.out)
    /\ last.out.shape = "scalar"
    /\ VIsZero(last.out.val)

C2_Witness ==
  /\ last.op = "f"
  /\ pc = "loaded"
  /\ last.t = 110
  /\ Len(last.x) = 1 /\ Len(last.u) = 1
  /\ DSign(last.x[1]) = 0 /\ DSign(last.u[1]) = 0
  /\ ~DEq(last.p.weir_height, DefaultParams.weir_height)
  /\ ~DEq(last.p.c, DefaultParams.c)
  /\ ~DEq(last.p.weir_width, DefaultParams.weir_width)
  /\ Returned(last.out) /\ VIsZero(last.out.val)

\* C3 as claimed: for every state vector x, g returns a value equal to x,
\* with the same length and the same elements.
C3_Identity ==
  last.op = "g" => (Returned(last.out) /\ last.out.val = last.x)

\* C3 as amended: g returns the list of the first component of x, x[0:1]:
\* equal to x when x has at most one component, and only the component at
\* index 0 when x has more.
C3_FirstComponent ==
  last.op = "g" =>
    /\ Returned(last.out)
    /\ last.out.shape = "list"
    /\ Len(last.out.val) = (IF Len(last.x) = 0 THEN 0 ELSE 1)
    /\ \A i \in 1..Len(last.out.val) : last.out.val[i] = last.x[i]
    /\ Len(last.x) <= 1 => last.out.val = last.x

C3_Witness ==
  /\ last.op = "g"
  /\ pc = "loaded"
  /\ Len(last.x) = 1
  /\ last.t = 110
  /\ Returned(last.out) /\ last.out.val = last.x

\* C4 as claimed: when f succeeds on a length-1 x and a length-1 u, its
\* result is a length-1 sequence.
C4_ResultIsSequence ==
  (last.op = "f" /\ Len(last.x) = 1 /\ Len(last.u) = 1 /\ Returned(last.out)) =>
    (last.out.shape = "list" /\ Len(last.out.val) = 1)

\* C4 as amended: when f succeeds on a length-1 x and a length-1 u, its
\* result is a bare scalar, the rate of change of x[0].
C4_ResultIsScalar ==
  (last.op = "f" /\ Len(last.x) = 1 /\ Len(last.u) = 1 /\ Returned(last.out)) =>
    last.out.shape = "scalar"

C4_Witness ==
  /\ last.op = "f"
  /\ pc = "loaded"
  /\ Len(last.x) = 1 /\ Len(last.u) = 1
  /\ Returned(last.out)
  /\ last.out.shape = "scalar"

C6_EveryComponent ==
  ( /\ LastIsF
    /\ Len(last.x) > 1
    /\ \E i \in 1..Len(last.x) : ~BelowBound(last.x[i], last.p) )
    => OutOfBounds(last.out)

\* C6 as amended: the guard of f covers the component at index 0 only: for x
\* with more than one component, f fails with the out-of-bounds error exactly
\* when x[0] is not strictly less than 0.33 * weir_width, whatever the other
\* components are.
C6_FirstComponentOnly ==
  (LastIsF /\ Len(last.x) > 1) =>
    (OutOfBounds(last.out) <=> ~BelowBound(last.x[1], last.p))

C6_Witness ==
  /\ LastIsF
  /\ Len(last.x) > 1
  /\ BelowBound(last.x[1], last.p)
  /\ ~BelowBound(last.x[2], last.p)
  /\ Returned(last.out)

\* C7: no step (a check of run_tests, passing or failing, or a call of f or
\* g, returning or raising) changes the module-level params, the dict it
\* refers to, x_nop or u_nop; run_tests changes copies only.
C7_NoMutation ==
  [][ /\ params' = params
      /\ heap'[params'] = heap[params]
      /\ x_nop' = x_nop
      /\ u_nop' = u_nop ]_vars

C7_Witness ==
  /\ pc = "L81"
  /\ params2 # NoRef
  /\ params2 # params
  /\ heap[params2] # heap[params]
  /\ heap[params] = DefaultParams

\* C8: two calls of f that agree on x[0], u[0], weir_height, c and
\* weir_width have the same outcome, whatever t and the other components of
\* x are in the two calls.
C8_Deterministic == echo.agree => echo.same

C8_Witness ==
  /\ pc = "loaded"
  /\ echo.agree /\ echo.tdiff /\ echo.same
  /\ Len(last.x) > 1

\* p is q with exactly one parameter changed
OneChanged(p, q) ==
  Cardinality({k \in {"weir_height", "c", "weir_width"} : ~DEq(p[k], q[k])}) = 1

VAbsLtD(v, k) == VLtD(v, k) /\ VSign(VSub(VOfD(DNeg(k)), v)) < 0

\* the testable properties of f, g and the module-level parameters p
TestableProperties(p) ==
  LET zero0   == f(0, <<DInt(0)>>, <<DInt(0)>>, p)
      zero110 == f(110, <<DInt(0)>>, <<DInt(0)>>, p)
      above   == f(0, <<DMul(Dec034, p.weir_width)>>, <<DInt(0)>>, p)
      below   == f(0, <<DMul(Dec(32, 2), p.weir_width)>>, <<DInt(0)>>, p)
      nop     == f(TestTime, x_nop, u_nop, p)
      y       == g(TestTime, x_nop, u_nop, p)
      changed(key, val) == f(TestTime, x_nop, u_nop, [p EXCEPT ![key] = val])
  IN  /\ Returned(zero0) /\ VIsZero(zero0.val)
      /\ Returned(zero110) /\ VIsZero(zero110.val)
      /\ OutOfBounds(above)
      /\ ~OutOfBounds(below)
      /\ Returned(nop) /\ ~IsComplex(nop.val) /\ VAbsLtD(nop.val, Dec1em6)
      /\ Returned(y) /\ ListEq(y.val, x_nop)
      /\ ~OutEq(nop, changed("c", DAdd(p.c, Dec0001)))
      /\ ~OutEq(nop, changed("weir_height", DAdd(p.weir_height, Dec001)))
      /\ ~OutEq(nop, changed("weir_width", DAdd(p.weir_width, Dec01)))
      /\ OutEq(nop, f(TestTime, x_nop, u_nop, p))

====
